---- MODULE Spec2Model ----
(***************************************************************************)
(* A model of BigFileFinder.py (class FileScannerGUI): the Tk foreground   *)
(* (event handlers and the `after` callback queue) and the background scan *)
(* thread running scan_folder, interleaved statement by statement.         *)
(*                                                                         *)
(* Two specifications are given.  Spec is the program as shipped: a        *)
(* handler bound to a button runs only when Tk would run it, i.e. when the *)
(* button's state is "normal".  SpecAPI additionally lets start_scan and   *)
(* stop_scan be called as plain methods in any state: the contract of the  *)
(* two methods themselves, whatever the widgets allow.                     *)
(***************************************************************************)
EXTENDS Integers, Sequences, FiniteSets

(* ---------------------------------------------------------------------- *)
(* Bounds of the model                                                     *)
(* ---------------------------------------------------------------------- *)

\* number of start_scan calls that are accepted in one behaviour
MaxScans == 2

\* directories one os.walk yields at most
MaxDirs == 2

\* file names one os.walk lists at most (over all its directories)
MaxFiles == 3

\* scaled-down stand-in for self.sort_threshold (100 in the source, line 32)
SortThreshold == 2

\* scaled-down stand-in for the progress cadence (file_count % 100, line 189)
StatusEvery == 2

\* the sizes os.path.getsize returns: two values give ties and inversions,
\* one prints without and one with a thousands separator
Sizes == {999, 1000}

Threads == 1..MaxScans

VARIABLES
    file_list,          \* self.file_list: sequence of <<size, path>>
    scanning,           \* self.scanning
    files_since_sort,   \* self.files_since_sort
    status_var,         \* self.status_var: [msg, n, total]
    scan_btn, stop_btn, browse_btn,              \* widget states
    delete_btn, select_all_btn, clear_btn,
    tree,               \* rows of self.tree, in display order: the values
                        \* <<f"{size:,}", f"{size_mb:.2f}", path>>
    selection,          \* self.tree.selection(): paths of the selected rows
    afterq,             \* callbacks posted with root.after(0, ...), oldest first
    thr,                \* the scan threads: locals and position in scan_folder
    nscans,             \* threads started so far
    \* history variables (observe the run, never read by the program)
    last_op,            \* the foreground handler that ran last ("select" for
                        \* the three selection handlers; browse_folder and
                        \* the scan thread leave it)
    appended,           \* records appended since the last accepted start_scan
    stop_called,        \* stop_scan ran since the last accepted start_scan
    after_stop,         \* records appended since then, after the first stop_scan
    exit_saw_stop,      \* stop_called as it was when the thread ran line 200
    delivered,          \* progress and terminal callbacks run since the last
                        \* accepted start_scan
    dialog,             \* the outcome delete_selected showed in its last
                        \* message box, until the next handler runs
    removed,            \* paths os.remove has removed since the last
                        \* accepted start_scan
    statlog,            \* per file name listed since the last accepted
                        \* start_scan: did os.path.getsize return a size
    scan_error          \* an exception has escaped the walk loop since the
                        \* last accepted start_scan

buttons == <<scan_btn, stop_btn, browse_btn, delete_btn, select_all_btn, clear_btn>>

history == <<appended, stop_called, after_stop, exit_saw_stop, delivered>>

deletion == <<dialog, removed>>

walklog == <<statlog, scan_error>>

vars == <<file_list, scanning, files_since_sort, status_var, scan_btn, stop_btn,
          browse_btn, delete_btn, select_all_btn, clear_btn, tree, selection,
          afterq, thr, nscans, last_op, appended, stop_called, after_stop,
          exit_saw_stop, delivered, dialog, removed, statlog,
          scan_error>>

(* ---------------------------------------------------------------------- *)
(* Helpers                                                                 *)
(* ---------------------------------------------------------------------- *)

Range(s) == {s[i] : i \in DOMAIN s}

Min(S) == CHOOSE x \in S : \A y \in S : x <= y

Status(m, n, total) == [msg |-> m, n |-> n, total |-> total]

Callback(fn, arg) == [fn |-> fn, arg |-> arg]

NoThread == [pc |-> "none", d |-> 0, k |-> 0, file_count |-> 0, size |-> 0]

DoneThread == [pc |-> "done", d |-> 0, k |-> 0, file_count |-> 0, size |-> 0]

\* root.after(0, fn, arg) with the posts of a mutated scheduler (newest first)
PostFront(q, fn, arg) == <<Callback(fn, arg)>> \o q

\* root.after(0, fn, arg): Tk runs timers of equal due time in posting order
Post(q, fn, arg) == Append(q, Callback(fn, arg))

\* insert x behind every element of r that is at least as large (stable)
InsertDesc(r, x) ==
    LET smaller == {i \in 1..Len(r) : r[i][1] < x[1]}
    IN  IF smaller = {} THEN Append(r, x)
        ELSE LET j == Min(smaller)
             IN  SubSeq(r, 1, j - 1) \o <<x>> \o SubSeq(r, j, Len(r))

RECURSIVE SortFrom(_, _, _)
SortFrom(s, i, acc) ==
    IF i > Len(s) THEN acc ELSE SortFrom(s, i + 1, InsertDesc(acc, s[i]))

\* a sort that orders by size ascending (reverse = True forgotten)
InsertAsc(r, x) ==
    LET larger == {i \in 1..Len(r) : r[i][1] > x[1]}
    IN  IF larger = {} THEN Append(r, x)
        ELSE LET j == Min(larger)
             IN  SubSeq(r, 1, j - 1) \o <<x>> \o SubSeq(r, j, Len(r))

RECURSIVE SortFromAsc(_, _, _)
SortFromAsc(s, i, acc) ==
    IF i > Len(s) THEN acc ELSE SortFromAsc(s, i + 1, InsertAsc(acc, s[i]))

sort_files_ascending(l) == SortFromAsc(l, 1, <<>>)

\* a sort that keeps one record per size (sorting through a dict keyed by size)
sort_files_one_per_size(l) ==
    SortFrom(SelectSeq(l, LAMBDA x : x = l[Min({i \in 1..Len(l) : l[i][1] = x[1]})]),
             1, <<>>)

\* sort_files: list.sort(reverse = True, key = size), which is stable
sort_files(l) == SortFrom(l, 1, <<>>)

RECURSIVE SumSizes(_)
SumSizes(l) == IF l = <<>> THEN 0 ELSE l[1][1] + SumSizes(Tail(l))

\* list.remove(x): drops the first element equal to x
RemoveFirst(l, x) ==
    LET hits == {i \in 1..Len(l) : l[i] = x}
    IN  IF hits = {} THEN l
        ELSE LET j == Min(hits)
             IN  SubSeq(l, 1, j - 1) \o SubSeq(l, j + 1, Len(l))

\* the message box delete_selected ends with: its kind, the number of
\* selected records, the number removed and the paths that failed, in order
Dialog(kind, attempted, deleted, failed) ==
    [kind |-> kind, attempted |-> attempted, deleted |-> deleted,
     failed |-> failed]

NoDialog == Dialog("none", 0, 0, <<>>)

DigitChars == <<"0", "1", "2", "3", "4", "5", "6", "7", "8", "9">>

RECURSIVE Digits(_)
\* str(n) for n >= 0, one character per element
Digits(n) ==
    IF n < 10 THEN <<DigitChars[n + 1]>>
    ELSE Digits(n \div 10) \o <<DigitChars[(n % 10) + 1]>>

\* the three digits of a group below the leading one
Group3(n) ==
    <<DigitChars[(n \div 100) + 1], DigitChars[((n \div 10) % 10) + 1],
      DigitChars[(n % 10) + 1]>>

RECURSIVE FormatThousands(_)
\* f"{size:,}"
FormatThousands(n) ==
    IF n < 1000 THEN Digits(n)
    ELSE FormatThousands(n \div 1000) \o <<",">> \o Group3(n % 1000)

DigitValue(c) == CHOOSE d \in 0..9 : DigitChars[d + 1] = c

RECURSIVE ParseDigits(_, _)
ParseDigits(txt, acc) ==
    IF txt = <<>> THEN acc
    ELSE ParseDigits(Tail(txt), 10 * acc + DigitValue(Head(txt)))

\* int(values[0].replace(",", ""))
ParseSize(txt) == ParseDigits(SelectSeq(txt, LAMBDA c : c # ","), 0)

\* f"{x:.2f}" of x = n / d, in hundredths: the nearest, ties to even
Hundredths(n, d) ==
    LET q == (100 * n) \div d
        r == (100 * n) % d
    IN  IF 2 * r > d \/ (2 * r = d /\ q % 2 = 1) THEN q + 1 ELSE q

Units == <<"B", "KB", "MB", "GB", "TB">>

RECURSIVE FormatFrom(_, _, _)
\* the loop of format_size from the u-th unit on, size being n / d there
FormatFrom(n, d, u) ==
    IF u > Len(Units) THEN <<Hundredths(n, d), "PB">>
    ELSE IF n < 1024 * d THEN <<Hundredths(n, d), Units[u]>>
    ELSE FormatFrom(n, 1024 * d, u + 1)

\* format_size(size): the text "x.xx unit" as <<hundredths, unit>>
format_size(size) == FormatFrom(size, 1, 1)

\* the values of one row (line 277-282)
Row(rec) ==
    <<FormatThousands(rec[1]), Hundredths(rec[1], 1024 * 1024), rec[2]>>

\* populate_tree: one row per element of file_list, in its order
populate_tree(l) == [i \in 1..Len(l) |-> Row(l[i])]

(* ---------------------------------------------------------------------- *)
(* Initial state: the object after __init__ and setup_ui                   *)
(* ---------------------------------------------------------------------- *)

Init ==
    /\ file_list = <<>>
    /\ scanning = FALSE
    /\ files_since_sort = 0
    /\ status_var = Status("Ready", 0, <<>>)
    /\ scan_btn = "disabled"
    /\ stop_btn = "disabled"
    /\ browse_btn = "normal"
    /\ delete_btn = "disabled"
    /\ select_all_btn = "disabled"
    /\ clear_btn = "disabled"
    /\ tree = <<>>
    /\ selection = {}
    /\ afterq = <<>>
    /\ thr = [t \in Threads |-> NoThread]
    /\ nscans = 0
    /\ last_op = "init"
    /\ appended = <<>>
    /\ stop_called = FALSE
    /\ after_stop = 0
    /\ exit_saw_stop = FALSE
    /\ delivered = <<>>
    /\ dialog = NoDialog
    /\ removed = {}
    /\ statlog = <<>>
    /\ scan_error = FALSE

(* ---------------------------------------------------------------------- *)
(* Foreground handlers (each runs to completion on the Tk main thread)     *)
(* ---------------------------------------------------------------------- *)

\* start_scan that leaves the Start button usable during the scan
start_scan_buttons_start_enabled ==
    [scan |-> "normal", stop |-> "normal", browse |-> "disabled",
     delete |-> "disabled", select_all |-> "disabled", clear |-> "disabled"]

\* start_scan that leaves the Delete button usable during the scan
start_scan_buttons_delete_enabled ==
    [scan |-> "disabled", stop |-> "normal", browse |-> "disabled",
     delete |-> "normal", select_all |-> "disabled", clear |-> "disabled"]

\* the widget states start_scan sets (lines 138-143)
start_scan_buttons ==
    [scan |-> "disabled", stop |-> "normal", browse |-> "disabled",
     delete |-> "disabled", select_all |-> "disabled", clear |-> "disabled"]

\* the widget states both terminal handlers set (lines 233-238, 260-265)
idle_buttons ==
    [scan |-> "normal", stop |-> "disabled", browse |-> "normal",
     delete |-> "normal", select_all |-> "normal", clear |-> "normal"]

SetButtons(b) ==
    /\ scan_btn' = b.scan
    /\ stop_btn' = b.stop
    /\ browse_btn' = b.browse
    /\ delete_btn' = b.delete
    /\ select_all_btn' = b.select_all
    /\ clear_btn' = b.clear

\* browse_folder: the dialog returns a folder or is dismissed
browse_folder ==
    /\ UNCHANGED last_op
    /\ \E chosen \in BOOLEAN :
          scan_btn' = IF chosen THEN "normal" ELSE scan_btn
    /\ UNCHANGED <<file_list, scanning, files_since_sort, status_var, stop_btn,
                   browse_btn, delete_btn, select_all_btn, clear_btn, tree,
                   selection, afterq, thr, nscans, history, deletion, walklog>>

\* the store not emptied (line 132 missing)
start_scan_keeps_records ==
    /\ last_op' = "start_scan"
    /\ IF scanning
       THEN UNCHANGED <<file_list, scanning, files_since_sort, status_var,
                        buttons, tree, selection, afterq, thr, nscans,
                        history, deletion, walklog>>
       ELSE /\ nscans < MaxScans
            /\ UNCHANGED file_list
            /\ tree' = <<>>
            /\ selection' = {}
            /\ files_since_sort' = 0
            /\ scanning' = TRUE
            /\ SetButtons(start_scan_buttons)
            /\ nscans' = nscans + 1
            /\ thr' = [thr EXCEPT ![nscans + 1] = [NoThread EXCEPT !.pc = "outer"]]
            /\ appended' = <<>>
            /\ stop_called' = FALSE
            /\ after_stop' = 0
            /\ exit_saw_stop' = FALSE
            /\ delivered' = <<>>
            /\ dialog' = NoDialog
            /\ removed' = {}
            /\ statlog' = <<>>
            /\ scan_error' = FALSE
            /\ UNCHANGED <<status_var, afterq>>

\* start_scan: returns at once while self.scanning, else resets the store
\* and the rows, sets the flag and the widgets and starts a scan thread
start_scan ==
    /\ last_op' = "start_scan"
    /\ IF scanning
       THEN UNCHANGED <<file_list, scanning, files_since_sort, status_var,
                        buttons, tree, selection, afterq, thr, nscans,
                        history, deletion, walklog>>
       ELSE /\ nscans < MaxScans
            /\ file_list' = <<>>
            /\ tree' = <<>>
            /\ selection' = {}
            /\ files_since_sort' = 0
            /\ scanning' = TRUE
            /\ SetButtons(start_scan_buttons)
            /\ nscans' = nscans + 1
            /\ thr' = [thr EXCEPT ![nscans + 1] = [NoThread EXCEPT !.pc = "outer"]]
            /\ appended' = <<>>
            /\ stop_called' = FALSE
            /\ after_stop' = 0
            /\ exit_saw_stop' = FALSE
            /\ delivered' = <<>>
            /\ dialog' = NoDialog
            /\ removed' = {}
            /\ statlog' = <<>>
            /\ scan_error' = FALSE
            /\ UNCHANGED <<status_var, afterq>>

\* stop_scan: clears the flag and sets the status, unconditionally
stop_scan ==
    /\ last_op' = "stop_scan"
    /\ scanning' = FALSE
    /\ status_var' = Status("Stopping scan...", 0, <<>>)
    /\ stop_called' = TRUE
    /\ UNCHANGED <<file_list, files_since_sort, buttons, tree, selection,
                   afterq, thr, nscans, appended, after_stop, exit_saw_stop,
                   delivered, deletion, walklog>>

\* update_status(message)
update_status(n) ==
    /\ status_var' = Status("Scanning...", n, <<>>)
    /\ UNCHANGED <<file_list, scanning, files_since_sort, buttons, tree, selection>>

\* finalize_scan(file_count)
finalize_scan(n) ==
    /\ file_list' = sort_files(file_list)
    /\ tree' = populate_tree(file_list')
    /\ selection' = {}
    /\ scanning' = FALSE
    /\ SetButtons(idle_buttons)
    /\ status_var' = Status("Scan complete", n, format_size(SumSizes(file_list')))
    /\ UNCHANGED files_since_sort

\* scan_cancelled(file_count)
scan_cancelled(n) ==
    /\ status_var' = Status("Scan cancelled", n, <<>>)
    /\ file_list' = sort_files(file_list)
    /\ tree' = populate_tree(file_list')
    /\ selection' = {}
    /\ scanning' = FALSE
    /\ SetButtons(idle_buttons)
    /\ UNCHANGED files_since_sort

\* messagebox.showerror("Scan Error", str(e)): a box, no state of the program
showerror ==
    UNCHANGED <<file_list, scanning, files_since_sort, status_var, buttons,
                tree, selection>>

\* the Tk main loop runs the oldest pending callback
RunCallback ==
    /\ afterq # <<>>
    /\ LET cb == Head(afterq)
       IN  /\ afterq' = Tail(afterq)
           /\ delivered' = IF cb.fn = "showerror" THEN delivered
                           ELSE Append(delivered, cb)
           /\ last_op' = cb.fn
           /\ CASE cb.fn = "update_status" -> update_status(cb.arg)
                [] cb.fn = "finalize_scan" -> finalize_scan(cb.arg)
                [] cb.fn = "scan_cancelled" -> scan_cancelled(cb.arg)
                [] cb.fn = "showerror" -> showerror
    /\ UNCHANGED <<thr, nscans, appended, stop_called, after_stop, exit_saw_stop,
                   deletion, walklog>>

(* ---------------------------------------------------------------------- *)
(* The scan thread: scan_folder, one step per shared access                 *)
(* ---------------------------------------------------------------------- *)

Goto(t, rec) == thr' = [thr EXCEPT ![t] = rec]

\* file_count = 0 placed inside the outer loop: the count restarts per directory
scan_folder_next_dir_recount(t) ==
    /\ thr[t].pc = "outer"
    /\ thr[t].d < MaxDirs
    /\ Goto(t, [thr[t] EXCEPT !.d = @ + 1, !.file_count = 0,
                              !.pc = IF scanning THEN "inner" ELSE "final"])
    /\ UNCHANGED last_op
    /\ UNCHANGED <<file_list, scanning, files_since_sort, status_var, buttons,
                   tree, selection, afterq, nscans,
                   history, deletion, walklog>>

\* line 166-168: os.walk yields another directory, then the flag is read
scan_folder_next_dir(t) ==
    /\ thr[t].pc = "outer"
    /\ thr[t].d < MaxDirs
    /\ Goto(t, [thr[t] EXCEPT !.d = @ + 1,
                              !.pc = IF scanning THEN "inner" ELSE "final"])
    /\ UNCHANGED last_op
    /\ UNCHANGED <<file_list, scanning, files_since_sort, status_var, buttons,
                   tree, selection, afterq, nscans,
                   history, deletion, walklog>>

\* line 166: os.walk is exhausted
scan_folder_walk_end(t) ==
    /\ thr[t].pc = "outer"
    /\ Goto(t, [thr[t] EXCEPT !.pc = "final"])
    /\ UNCHANGED last_op
    /\ UNCHANGED <<file_list, scanning, files_since_sort, status_var, buttons,
                   tree, selection, afterq, nscans,
                   history, deletion, walklog>>

\* line 170: the directory has no further file name
scan_folder_dir_end(t) ==
    /\ thr[t].pc = "inner"
    /\ Goto(t, [thr[t] EXCEPT !.pc = "outer"])
    /\ UNCHANGED last_op
    /\ UNCHANGED <<file_list, scanning, files_since_sort, status_var, buttons,
                   tree, selection, afterq, nscans,
                   history, deletion, walklog>>

\* the per-file check of the flag left out (line 171-172 missing)
scan_folder_next_file_unchecked(t) ==
    /\ thr[t].pc = "inner"
    /\ thr[t].k < MaxFiles
    /\ \/ /\ \E s \in Sizes :
                Goto(t, [thr[t] EXCEPT !.k = @ + 1, !.size = s, !.pc = "append"])
          /\ statlog' = Append(statlog, TRUE)
       \/ /\ Goto(t, [thr[t] EXCEPT !.k = @ + 1])
          /\ statlog' = Append(statlog, FALSE)
    /\ UNCHANGED last_op
    /\ UNCHANGED <<file_list, scanning, files_since_sort, status_var, buttons,
                   tree, selection, afterq, nscans, history, deletion,
                   scan_error>>

\* the inner handler records the unreadable file with size 0 instead of
\* skipping it
scan_folder_next_file_keeps_unreadable(t) ==
    /\ thr[t].pc = "inner"
    /\ thr[t].k < MaxFiles
    /\ IF ~scanning
       THEN /\ Goto(t, [thr[t] EXCEPT !.pc = "outer"])
            /\ UNCHANGED statlog
       ELSE \/ /\ \E s \in Sizes :
                     Goto(t, [thr[t] EXCEPT !.k = @ + 1, !.size = s,
                                            !.pc = "append"])
               /\ statlog' = Append(statlog, TRUE)
            \/ /\ Goto(t, [thr[t] EXCEPT !.k = @ + 1, !.size = 0,
                                          !.pc = "append"])
               /\ statlog' = Append(statlog, FALSE)
    /\ UNCHANGED last_op
    /\ UNCHANGED <<file_list, scanning, files_since_sort, status_var, buttons,
                   tree, selection, afterq, nscans, history, deletion,
                   scan_error>>

\* line 170-176, 192-194: the next file name; break when the flag is clear,
\* else os.path.getsize returns a size or raises an OSError (skip the file)
scan_folder_next_file(t) ==
    /\ thr[t].pc = "inner"
    /\ thr[t].k < MaxFiles
    /\ IF ~scanning
       THEN /\ Goto(t, [thr[t] EXCEPT !.pc = "outer"])
            /\ UNCHANGED statlog
       ELSE \/ /\ \E s \in Sizes :
                     Goto(t, [thr[t] EXCEPT !.k = @ + 1, !.size = s,
                                            !.pc = "append"])
               /\ statlog' = Append(statlog, TRUE)
            \/ /\ Goto(t, [thr[t] EXCEPT !.k = @ + 1])
               /\ statlog' = Append(statlog, FALSE)
    /\ UNCHANGED last_op
    /\ UNCHANGED <<file_list, scanning, files_since_sort, status_var, buttons,
                   tree, selection, afterq, nscans, history, deletion,
                   scan_error>>

\* the record appended, file_count left as it was (line 180 missing)
scan_folder_append_uncounted(t) ==
    /\ thr[t].pc = "append"
    /\ file_list' = Append(file_list, <<thr[t].size, thr[t].k>>)
    /\ Goto(t, [thr[t] EXCEPT !.pc = "count"])
    /\ appended' = Append(appended, <<thr[t].size, thr[t].k>>)
    /\ after_stop' = IF stop_called THEN after_stop + 1 ELSE after_stop
    /\ UNCHANGED last_op
    /\ UNCHANGED <<scanning, files_since_sort, status_var, buttons, tree,
                   selection, afterq, nscans, stop_called, exit_saw_stop,
                   delivered, deletion, walklog>>

\* line 179-180: append the record, count it
scan_folder_append(t) ==
    /\ thr[t].pc = "append"
    /\ file_list' = Append(file_list, <<thr[t].size, thr[t].k>>)
    /\ Goto(t, [thr[t] EXCEPT !.file_count = @ + 1, !.pc = "count"])
    /\ appended' = Append(appended, <<thr[t].size, thr[t].k>>)
    /\ after_stop' = IF stop_called THEN after_stop + 1 ELSE after_stop
    /\ UNCHANGED last_op
    /\ UNCHANGED <<scanning, files_since_sort, status_var, buttons, tree,
                   selection, afterq, nscans, stop_called, exit_saw_stop,
                   delivered, deletion, walklog>>

\* line 174-179, 196-197: an exception that is not an OSError (a MemoryError
\* of the append, say) passes the inner handler and leaves the walk loop
\* before the record is added; the outer handler posts the error box
scan_folder_raise(t) ==
    /\ thr[t].pc = "append"
    /\ afterq' = Post(afterq, "showerror", 0)
    /\ Goto(t, [thr[t] EXCEPT !.size = 0, !.pc = "final"])
    /\ scan_error' = TRUE
    /\ UNCHANGED last_op
    /\ UNCHANGED <<file_list, scanning, files_since_sort, status_var, buttons,
                   tree, selection, nscans, history, deletion, statlog>>

\* line 181
scan_folder_count(t) ==
    /\ thr[t].pc = "count"
    /\ files_since_sort' = files_since_sort + 1
    /\ Goto(t, [thr[t] EXCEPT !.pc = "resort"])
    /\ UNCHANGED last_op
    /\ UNCHANGED <<file_list, scanning, status_var, buttons, tree, selection,
                   afterq, nscans, history, deletion, walklog>>

\* the threshold compared with > : the resort comes one file late
scan_folder_resort_late(t) ==
    /\ thr[t].pc = "resort"
    /\ IF files_since_sort > SortThreshold
       THEN /\ file_list' = sort_files(file_list)
            /\ files_since_sort' = 0
       ELSE UNCHANGED <<file_list, files_since_sort>>
    /\ Goto(t, [thr[t] EXCEPT !.pc = "progress"])
    /\ UNCHANGED last_op
    /\ UNCHANGED <<scanning, status_var, buttons, tree, selection, afterq,
                   nscans, history, deletion, walklog>>

\* line 184-186
scan_folder_resort(t) ==
    /\ thr[t].pc = "resort"
    /\ IF files_since_sort >= SortThreshold
       THEN /\ file_list' = sort_files(file_list)
            /\ files_since_sort' = 0
       ELSE UNCHANGED <<file_list, files_since_sort>>
    /\ Goto(t, [thr[t] EXCEPT !.pc = "progress"])
    /\ UNCHANGED last_op
    /\ UNCHANGED <<scanning, status_var, buttons, tree, selection, afterq,
                   nscans, history, deletion, walklog>>

\* line 189-190
scan_folder_progress(t) ==
    /\ thr[t].pc = "progress"
    /\ afterq' = IF thr[t].file_count % StatusEvery = 0
                 THEN Post(afterq, "update_status", thr[t].file_count)
                 ELSE afterq
    /\ Goto(t, [thr[t] EXCEPT !.size = 0, !.pc = "inner"])
    /\ UNCHANGED last_op
    /\ UNCHANGED <<file_list, scanning, files_since_sort, status_var, buttons,
                   tree, selection, nscans, history, deletion, walklog>>

\* the terminal callback chosen the wrong way round
scan_folder_exit_swapped(t) ==
    /\ thr[t].pc = "final"
    /\ afterq' = IF scanning
                 THEN Post(afterq, "scan_cancelled", thr[t].file_count)
                 ELSE Post(afterq, "finalize_scan", thr[t].file_count)
    /\ Goto(t, DoneThread)
    /\ exit_saw_stop' = stop_called
    /\ UNCHANGED last_op
    /\ UNCHANGED <<file_list, scanning, files_since_sort, status_var, buttons,
                   tree, selection, nscans, appended, stop_called, after_stop,
                   delivered, deletion, walklog>>

\* a stopped scan ends without posting scan_cancelled
scan_folder_exit_silent_when_stopped(t) ==
    /\ thr[t].pc = "final"
    /\ afterq' = IF scanning
                 THEN Post(afterq, "finalize_scan", thr[t].file_count)
                 ELSE afterq
    /\ Goto(t, DoneThread)
    /\ exit_saw_stop' = stop_called
    /\ UNCHANGED last_op
    /\ UNCHANGED <<file_list, scanning, files_since_sort, status_var, buttons,
                   tree, selection, nscans, appended, stop_called, after_stop,
                   delivered, deletion, walklog>>

\* line 200-203: the flag decides the terminal callback; the thread ends
scan_folder_exit(t) ==
    /\ thr[t].pc = "final"
    /\ afterq' = IF scanning
                 THEN Post(afterq, "finalize_scan", thr[t].file_count)
                 ELSE Post(afterq, "scan_cancelled", thr[t].file_count)
    /\ Goto(t, DoneThread)
    /\ exit_saw_stop' = stop_called
    /\ UNCHANGED last_op
    /\ UNCHANGED <<file_list, scanning, files_since_sort, status_var, buttons,
                   tree, selection, nscans, appended, stop_called, after_stop,
                   delivered, deletion, walklog>>

scan_folder(t) ==
    \/ scan_folder_next_dir(t)
    \/ scan_folder_walk_end(t)
    \/ scan_folder_dir_end(t)
    \/ scan_folder_next_file(t)
    \/ scan_folder_append(t)
    \/ scan_folder_raise(t)
    \/ scan_folder_count(t)
    \/ scan_folder_resort(t)
    \/ scan_folder_progress(t)
    \/ scan_folder_exit(t)

(* ---------------------------------------------------------------------- *)
(* Selection and deletion                                                  *)
(* ---------------------------------------------------------------------- *)

\* the paths of the rows (values[2] of each)
Paths(rows) == {rows[i][3] : i \in DOMAIN rows}

\* the rows of a sequence whose path is in P, in order
Keep(rows, P) == SelectSeq(rows, LAMBDA row : row[3] \in P)

\* line 295-302: (size, path) of each selected row, in the order
\* tree.selection() lists them
files_to_delete_of(rows, sel) ==
    LET selected == Keep(rows, sel)
    IN  [i \in 1..Len(selected) |-> <<ParseSize(selected[i][1]), selected[i][3]>>]

\* the locals and the store before the deletion loop (line 317-318)
DeleteStart(l) == [file_list |-> l, deleted |-> 0, failed |-> <<>>, gone |-> {}]

\* the record leaves the store before os.remove is tried
delete_one_drops_first(acc, f, success) ==
    LET l == IF f \in Range(acc.file_list) THEN RemoveFirst(acc.file_list, f)
             ELSE acc.file_list
    IN  IF success
        THEN [acc EXCEPT !.deleted = @ + 1, !.gone = @ \cup {f[2]}, !.file_list = l]
        ELSE [acc EXCEPT !.failed = Append(@, <<f[2], "error">>), !.file_list = l]

\* line 321-328: one pass of the loop body; os.remove succeeds or raises
delete_one(acc, f, success) ==
    IF success
    THEN [acc EXCEPT !.deleted = @ + 1,
                     !.gone = @ \cup {f[2]},
                     !.file_list = IF f \in Range(@) THEN RemoveFirst(@, f) ELSE @]
    ELSE [acc EXCEPT !.failed = Append(@, <<f[2], "error">>)]

RECURSIVE delete_loop_stops_at_failure(_, _, _)
\* the try around the whole loop: the first failure ends the batch
delete_loop_stops_at_failure(files, ok, acc) ==
    IF files = <<>> THEN acc
    ELSE IF files[1][2] \in ok
         THEN delete_loop_stops_at_failure(Tail(files), ok,
                                           delete_one(acc, files[1], TRUE))
         ELSE delete_one(acc, files[1], FALSE)

RECURSIVE delete_loop(_, _, _)
\* line 320-328: every file of the batch in turn; ok holds the paths os.remove
\* succeeds on
delete_loop(files, ok, acc) ==
    IF files = <<>> THEN acc
    ELSE delete_loop(Tail(files), ok,
                     delete_one(acc, files[1], files[1][2] \in ok))

\* every selected row leaves the tree, failed or not
remove_rows_all_selected(rows, sel, failed) ==
    SelectSeq(rows, LAMBDA row : row[3] \notin sel)

\* line 331-335: the selected rows whose path is not in failed leave the tree
remove_rows(rows, sel, failed) ==
    SelectSeq(rows, LAMBDA row :
        row[3] \notin sel \/ row[3] \in {failed[i][1] : i \in DOMAIN failed})

\* the user control-clicks a row of the tree (selectmode = 'extended'):
\* the row joins or leaves the selection
tree_select ==
    /\ \E p \in Paths(tree) :
          selection' = IF p \in selection THEN selection \ {p}
                       ELSE selection \cup {p}
    /\ last_op' = "select"
    /\ dialog' = NoDialog
    /\ UNCHANGED <<file_list, scanning, files_since_sort, status_var, buttons,
                   tree, afterq, thr, nscans, history, removed, walklog>>

\* select_all
select_all ==
    /\ selection' = Paths(tree)
    /\ last_op' = "select"
    /\ dialog' = NoDialog
    /\ UNCHANGED <<file_list, scanning, files_since_sort, status_var, buttons,
                   tree, afterq, thr, nscans, history, removed, walklog>>

\* clear_selection
clear_selection ==
    /\ selection' = {}
    /\ last_op' = "select"
    /\ dialog' = NoDialog
    /\ UNCHANGED <<file_list, scanning, files_since_sort, status_var, buttons,
                   tree, afterq, thr, nscans, history, removed, walklog>>

\* the confirmation dialog is not consulted
delete_selected_unconfirmed ==
    /\ last_op' = "delete_selected"
    /\ IF selection = {}
       THEN /\ dialog' = Dialog("no_selection", 0, 0, <<>>)
            /\ UNCHANGED <<file_list, tree, selection, removed>>
       ELSE \E confirm \in BOOLEAN, ok \in SUBSET selection :
            \E files \in {files_to_delete_of(tree, selection)} :
            \E out \in {delete_loop(files, ok, DeleteStart(file_list))} :
                  /\ file_list' = out.file_list
                  /\ removed' = removed \cup out.gone
                  /\ tree' = remove_rows(tree, selection, out.failed)
                  /\ selection' = selection \cap Paths(tree')
                  /\ dialog' = IF ~confirm
                               THEN Dialog("declined", Len(files), 0, <<>>)
                               ELSE Dialog(IF out.failed # <<>> THEN "errors"
                                           ELSE "complete",
                                           Len(files), out.deleted, out.failed)
    /\ UNCHANGED <<scanning, files_since_sort, status_var, buttons, afterq, thr,
                   nscans, history, walklog>>

\* delete_selected: nothing selected or the confirmation declined: return;
\* else os.remove each selected file (ok: the paths whose removal succeeds),
\* drop each removed record from file_list and each removed row from the
\* tree, and show the outcome (files and out are bound by \E over a
\* one-element set, which evaluates each once)
delete_selected ==
    /\ last_op' = "delete_selected"
    /\ IF selection = {}
       THEN /\ dialog' = Dialog("no_selection", 0, 0, <<>>)
            /\ UNCHANGED <<file_list, tree, selection, removed>>
       ELSE \E confirm \in BOOLEAN :
            \E files \in {files_to_delete_of(tree, selection)} :
                  IF ~confirm
                  THEN /\ dialog' = Dialog("declined", Len(files), 0, <<>>)
                       /\ UNCHANGED <<file_list, tree, selection, removed>>
                  ELSE \E ok \in SUBSET selection :
                       \E out \in {delete_loop(files, ok, DeleteStart(file_list))} :
                             /\ file_list' = out.file_list
                             /\ removed' = removed \cup out.gone
                             /\ tree' = remove_rows(tree, selection, out.failed)
                             /\ selection' = selection \cap Paths(tree')
                             /\ dialog' = Dialog(IF out.failed # <<>> THEN "errors"
                                                 ELSE "complete",
                                                 Len(files), out.deleted, out.failed)
    /\ UNCHANGED <<scanning, files_since_sort, status_var, buttons, afterq, thr,
                   nscans, history, walklog>>

(* ---------------------------------------------------------------------- *)
(* The user: Tk runs a button's command only while the button is enabled   *)
(* ---------------------------------------------------------------------- *)

ClickBrowse == browse_btn = "normal" /\ browse_folder

ClickStart == scan_btn = "normal" /\ start_scan

ClickStop == stop_btn = "normal" /\ stop_scan

ClickDelete == delete_btn = "normal" /\ delete_selected

ClickSelectAll == select_all_btn = "normal" /\ select_all

ClickClear == clear_btn = "normal" /\ clear_selection

Next ==
    \/ ClickBrowse
    \/ ClickStart
    \/ ClickStop
    \/ ClickDelete
    \/ ClickSelectAll
    \/ ClickClear
    \/ tree_select
    \/ RunCallback
    \/ \E t \in Threads : scan_folder(t)

Spec == Init /\ [][Next]_vars

\* the scan thread is a daemon thread the interpreter keeps scheduling, and
\* the Tk main loop keeps running the callbacks root.after(0, ...) queued
SpecFair ==
    /\ Spec
    /\ \A t \in Threads : WF_vars(scan_folder(t))
    /\ WF_vars(RunCallback)

\* the two methods called directly, whatever the state of their buttons
CallStart == start_scan

CallStop == stop_scan

\* files one walk lists at most when the methods are called directly
MaxFilesAPI == 2

scan_folder_api(t) ==
    /\ thr[t].k <= MaxFilesAPI
    /\ scan_folder(t)
    /\ thr'[t].k <= MaxFilesAPI

NextAPI ==
    \/ CallStart
    \/ CallStop
    \/ RunCallback
    \/ \E t \in Threads : scan_folder_api(t)

SpecAPI == Init /\ [][NextAPI]_vars

(* ---------------------------------------------------------------------- *)
(* Properties                                                              *)
(* ---------------------------------------------------------------------- *)

Terminals == {"finalize_scan", "scan_cancelled"}

Alive(t) == thr[t].pc \notin {"none", "done"}

TerminalPending == \E i \in DOMAIN afterq : afterq[i].fn \in Terminals

\* from an accepted start_scan until that scan's terminal handler has run
ScanActive == (\E t \in Threads : Alive(t)) \/ TerminalPending

SortedDesc(l) == \A i \in 1..(Len(l) - 1) : l[i][1] >= l[i + 1][1]

Count(l, x) == Cardinality({i \in 1..Len(l) : l[i] = x})

SameBag(a, b) ==
    /\ Len(a) = Len(b)
    /\ \A x \in Range(a) \cup Range(b) : Count(a, x) = Count(b, x)

TerminalsIn(l) == Cardinality({i \in 1..Len(l) : l[i].fn \in Terminals})

\* C1: right after finalize_scan or scan_cancelled has run, file_list is in
\* non-increasing order of size, whatever records the scan appended.
C1_SortedAfterTerminal ==
    last_op \in Terminals => SortedDesc(file_list)

C1_Witness ==
    /\ last_op = "finalize_scan"
    /\ Len(file_list) >= 3
    /\ ~SortedDesc(appended)

\* C2: right after scan_cancelled has run, file_list holds exactly the records
\* the scan thread appended (same multiset), and once scan_cancelled has been
\* delivered no scan thread is left that could append another one.
C2_CancelKeepsAppended ==
    /\ last_op = "scan_cancelled" => SameBag(file_list, appended)
    /\ (\E i \in DOMAIN delivered : delivered[i].fn = "scan_cancelled")
          => \A t \in Threads : ~Alive(t)

C2_Witness ==
    /\ last_op = "scan_cancelled"
    /\ stop_called
    /\ Len(appended) >= 2
    /\ \E i, j \in DOMAIN appended : i # j /\ appended[i][1] = appended[j][1]

\* C3: a start_scan call made while a scan is active (thread alive or its
\* terminal callback pending) changes neither file_list, files_since_sort,
\* the scanning flag nor the scan threads.
C3_StartRejectedWhileActive ==
    [][(ScanActive /\ last_op' = "start_scan")
          => UNCHANGED <<file_list, files_since_sort, scanning, thr>>]_vars

\* C4: at most one scan thread is inside scan_folder at any time.
C4_OneScanThread ==
    Cardinality({t \in Threads : Alive(t)}) <= 1

C4_Witness ==
    /\ nscans = 2
    /\ thr[2].pc = "append"
    /\ stop_called

\* C5: while a scan is active the delete, select-all and clear-selection
\* buttons are disabled and none of their handlers has run.
C5_NoDeleteWhileScanning ==
    ScanActive =>
        /\ delete_btn = "disabled"
        /\ select_all_btn = "disabled"
        /\ clear_btn = "disabled"
        /\ last_op \notin {"delete_selected", "select"}

C5_Witness ==
    /\ nscans = 2
    /\ Alive(2)
    /\ Len(file_list) >= 1
    /\ delete_btn = "disabled"

\* C6: after stop_scan has been called during a scan, the scan thread appends
\* at most one more record.
C6_AtMostOneAppendAfterStop ==
    after_stop <= 1

C6_Witness ==
    /\ after_stop = 1
    /\ \A t \in Threads : ~Alive(t)
    /\ Len(appended) >= 2

\* C7 as claimed: at most one terminal callback per scan; it is finalize_scan
\* only if stop_scan was not called before it ran, and scan_cancelled only if
\* stop_scan was called before it ran.
C7_TerminalFollowsStop ==
    /\ TerminalsIn(delivered) <= 1
    /\ last_op = "finalize_scan" => ~stop_called
    /\ last_op = "scan_cancelled" => stop_called

\* C7 amended: exactly one terminal callback per scan (never two, and one
\* once the thread has ended and the queue is drained); it is scan_cancelled
\* iff stop_scan had been called when the thread read the flag at line 200.
C7_TerminalFollowsFlagAtExit ==
    /\ TerminalsIn(delivered) <= 1
    /\ (nscans > 0 /\ afterq = <<>> /\ \A t \in Threads : ~Alive(t))
          => TerminalsIn(delivered) = 1
    /\ last_op = "finalize_scan" => ~exit_saw_stop
    /\ last_op = "scan_cancelled" => exit_saw_stop

C7_Witness ==
    /\ last_op = "finalize_scan"
    /\ stop_called
    /\ ~exit_saw_stop

\* C8: a stop_scan call made while no scan is active changes neither the
\* scanning flag, file_list, files_since_sort, the status nor the buttons.
C8_StopIdleNoOp ==
    [][(~ScanActive /\ last_op' = "stop_scan")
          => UNCHANGED <<scanning, file_list, files_since_sort, status_var,
                         buttons>>]_vars

\* C9: among the callbacks run for one scan, a terminal callback is the last:
\* no update_status runs after finalize_scan or scan_cancelled.
C9_TerminalLast ==
    \A i \in DOMAIN delivered :
        delivered[i].fn \in Terminals => i = Len(delivered)

C9_Witness ==
    /\ Len(delivered) = 2
    /\ delivered[1].fn = "update_status"
    /\ delivered[2].fn = "finalize_scan"

FailedPaths(d) == [i \in 1..Len(d.failed) |-> d.failed[i][1]]

\* the (size, path) a row shows, as delete_selected reads it back
RowRecords(rows) ==
    [i \in 1..Len(rows) |-> <<ParseSize(rows[i][1]), rows[i][3]>>]

DeletionDone ==
    last_op = "delete_selected" /\ dialog.kind \in {"complete", "errors"}

\* C11: a confirmed deletion tries every selected record in input order: a
\* failure does not end the batch, the failures are recorded in input order
\* (they are the rows left selected), and deleted + len(failed) is the number
\* of selected records
C11_EveryFileAttempted ==
    DeletionDone =>
        /\ dialog.deleted + Len(dialog.failed) = dialog.attempted
        /\ FailedPaths(dialog) =
               [i \in 1..Len(Keep(tree, selection)) |-> Keep(tree, selection)[i][3]]

\* a batch of three whose first file (the largest) failed and in which a
\* smaller file, later in the input order, was then removed
C11_Witness ==
    /\ DeletionDone
    /\ dialog.attempted = 3
    /\ dialog.deleted = Cardinality(removed)
    /\ Len(dialog.failed) >= 1
    /\ \E j \in DOMAIN tree :
          /\ tree[j][3] = dialog.failed[1][1]
          /\ ParseSize(tree[j][1]) = 1000
    /\ \E i \in DOMAIN appended :
          appended[i][2] \in removed /\ appended[i][1] = 999

\* C12: a confirmed deletion leaves file_list as it was with exactly the
\* removed records taken out, in the same relative order: the failed records
\* and the unselected ones stay
C12_ExactlySuccessesRemoved ==
    [][(last_op' = "delete_selected" /\ dialog'.kind \in {"complete", "errors"})
          => LET gone == selection \ Range(FailedPaths(dialog'))
             IN  file_list' = SelectSeq(file_list, LAMBDA r : r[2] \notin gone)]_vars

C12_Witness ==
    /\ DeletionDone
    /\ dialog.deleted >= 1
    /\ Len(dialog.failed) >= 1
    /\ Len(file_list) > Len(dialog.failed)

\* the paths of a sequence of records
RecPaths(l) == {l[i][2] : i \in DOMAIN l}

\* the listed names whose size lookup failed, and those it succeeded on
Skipped == {i \in DOMAIN statlog : ~statlog[i]}

Sized == {i \in DOMAIN statlog : statlog[i]}

\* C13: a file whose size lookup fails is never added to file_list and
\* changes neither file_count nor files_since_sort, and the scan goes on
\* with the next entry: short of a scan-level error, every file whose lookup
\* succeeded is appended, and a completed scan holds exactly those
C13_SkippedFileLeavesNoTrace ==
    /\ [](/\ RecPaths(appended) \cap Skipped = {}
          /\ RecPaths(file_list) \cap Skipped = {}
          /\ \A t \in Threads :
                (Alive(t) /\ thr[t].pc # "append") =>
                    /\ thr[t].file_count = Len(appended)
                    /\ ~scan_error => RecPaths(appended) = Sized
          /\ (last_op = "finalize_scan" /\ ~scan_error) =>
                RecPaths(file_list) = Sized)
    /\ [][statlog' = Append(statlog, FALSE)
            => /\ UNCHANGED <<file_list, files_since_sort, afterq>>
               /\ \A t \in Threads :
                     Alive(t) => /\ thr'[t].pc = "inner"
                                 /\ thr'[t].file_count = thr[t].file_count]_vars

\* a completed scan in which a lookup failed and a later one succeeded
C13_Witness ==
    /\ last_op = "finalize_scan"
    /\ ~scan_error
    /\ \E i, j \in DOMAIN statlog :
          i < j /\ ~statlog[i] /\ statlog[j] /\ j \in RecPaths(file_list)

\* C14: when an exception escapes the walk loop, the error box has been
\* shown by the time the terminal handler has run, that handler is
\* scan_cancelled (the status says cancelled, not complete), and the records
\* found so far are shown sorted
C14_ScanErrorEndsCancelled ==
    (scan_error /\ last_op \in Terminals) =>
        /\ \A i \in DOMAIN afterq : afterq[i].fn # "showerror"
        /\ last_op = "scan_cancelled"
        /\ status_var.msg = "Scan cancelled"
        /\ SortedDesc(file_list)
        /\ RowRecords(tree) = file_list

\* the controller is Idle: flag clear, Stop disabled, every other button
\* enabled
ControllerIdle ==
    /\ ~scanning
    /\ stop_btn = "disabled"
    /\ scan_btn = "normal" /\ browse_btn = "normal" /\ delete_btn = "normal"
    /\ select_all_btn = "normal" /\ clear_btn = "normal"

\* C15: with the scan thread and the callback queue scheduled fairly, every
\* started scan (its walk is finite) delivers its terminal notification and
\* the controller returns to Idle, whether or not stop_scan is called
C15_ScanReturnsToIdle ==
    ScanActive ~> (~ScanActive /\ TerminalsIn(delivered) = 1 /\ ControllerIdle)

\* the second scan of a run back in Idle after it was stopped
C15_Witness ==
    /\ nscans = 2
    /\ stop_called
    /\ last_op = "scan_cancelled"
    /\ ~ScanActive
    /\ ControllerIdle

\* the scan thread is between two entries: at the head of the directory
\* loop, at the head of the file loop, or past both
BetweenEntries(t) == thr[t].pc \in {"outer", "inner", "final"}

\* C16: whenever the scan thread is between two entries,
\* 0 <= files_since_sort < sort_threshold and file_list without its last
\* files_since_sort elements is in non-increasing size order
C16_OnlyTailUnsorted ==
    \A t \in Threads :
        BetweenEntries(t) =>
            /\ 0 <= files_since_sort
            /\ files_since_sort < SortThreshold
            /\ files_since_sort <= Len(file_list)
            /\ SortedDesc(SubSeq(file_list, 1, Len(file_list) - files_since_sort))

\* an unsorted store between two entries: the file appended since the last
\* resort is larger than a file of the sorted part
C16_Witness ==
    \E t \in Threads :
        /\ thr[t].pc = "inner"
        /\ files_since_sort = 1
        /\ Len(file_list) >= 3
        /\ ~SortedDesc(file_list)

\* C17: right after a terminal handler has run, the file count in the status
\* line is len(file_list), and after finalize_scan the total size shown is
\* format_size of the sum of the sizes in file_list
C17_ReportedCountAndTotal ==
    (last_op \in Terminals) =>
        /\ status_var.n = Len(file_list)
        /\ last_op = "finalize_scan" =>
              status_var.total = format_size(SumSizes(file_list))

\* a completed scan of two or more files, one name skipped, whose total is
\* shown in KB
C17_Witness ==
    /\ last_op = "finalize_scan"
    /\ status_var.n >= 2
    /\ Skipped # {}
    /\ status_var.total[2] = "KB"

\* C18: an accepted start_scan empties file_list and the rows and zeroes
\* files_since_sort before the scan thread appends anything: while a scan is
\* active no row is shown and file_list holds exactly the records this scan
\* appended, and afterwards file_list holds no record this scan did not append
C18_ScanStartsEmpty ==
    /\ ScanActive =>
          /\ tree = <<>>
          /\ SameBag(file_list, appended)
          /\ files_since_sort <= Len(appended)
    /\ \A x \in Range(file_list) : Count(file_list, x) <= Count(appended, x)

\* the second scan about to list its first file, the store empty, after a
\* first scan that completed with two or more files
C18_Witness ==
    /\ nscans = 2
    /\ thr[2].pc = "inner"
    /\ thr[2].k = 0
    /\ file_list = <<>>
    /\ status_var.msg = "Scan complete"
    /\ status_var.n >= 2

\* C19: when nothing is selected or the confirmation is declined,
\* delete_selected removes no file and leaves file_list and the rows as
\* they were
C19_NothingDeletedUnconfirmed ==
    [][(last_op' = "delete_selected"
          /\ dialog'.kind \in {"no_selection", "declined"})
          => UNCHANGED <<file_list, tree, selection, removed>>]_vars

\* delete_selected has returned on a declined confirmation for two or more
\* selected rows
C19_Witness ==
    /\ last_op = "delete_selected"
    /\ dialog.kind = "declined"
    /\ dialog.attempted >= 2
    /\ Cardinality(selection) = dialog.attempted

\* a terminal handler has run and no scan has been started since
IdleAfterTerminal == ~ScanActive /\ ~scanning /\ TerminalsIn(delivered) = 1

\* C20: whenever the controller is Idle after a terminal state, the rows of
\* the tree show file_list element for element, the same (size, path) in the
\* same order: after finalize_scan, after scan_cancelled and after any
\* deletions, failed or not
C20_RowsMirrorStore ==
    IdleAfterTerminal => RowRecords(tree) = file_list

\* after two deletions, the last with a success and a failure, the row of a
\* file of 1,000 bytes remains
C20_Witness ==
    /\ IdleAfterTerminal
    /\ DeletionDone
    /\ dialog.kind = "errors"
    /\ Cardinality(removed) > dialog.deleted
    /\ dialog.deleted >= 1
    /\ \E i \in DOMAIN tree : ParseSize(tree[i][1]) = 1000
====
